---- MODULE Spec2Model ----
(***************************************************************************)
(* State-machine model of android_player/native/QSurfaceTexture.cpp:       *)
(* the QSurfaceTexture item, its SurfaceTextureNode render node, the       *)
(* SurfaceTextureShader material state and the JNI frameAvailable          *)
(* trampoline, together with the parts of the host framework they are      *)
(* driven by (the GUI event queue that carries the queued "update" calls,  *)
(* the scene-graph sync/render pass, the platform SurfaceTexture).         *)
(*                                                                         *)
(* Threads.  "producer" is the platform decoder thread that runs the       *)
(* listener callback.  "gui" is the thread the item lives on: it           *)
(* dispatches queued calls and runs the item's destructor.  The scene      *)
(* graph runs updatePaintNode, preprocess and updateState on the render    *)
(* thread; with the threaded render loop that is a thread of its own which *)
(* renders while the gui thread runs on, with the basic render loop it is  *)
(* the gui thread itself.  Both render loops are modelled.                 *)
(***************************************************************************)
EXTENDS Integers, Sequences, FiniteSets, TLC

\* ---------------------------------------------------------------- bounds
\* How many times the lazy initialisation of updatePaintNode may run.
MaxCreates == 2
\* How long the gui event queue may be when a notification is accepted.
MaxQueue == 2
\* How many transforms besides the identity the producer may attach to frames.
NumTransforms == 1

\* ------------------------------------------------------------- constants
\* Length of the transform scratch array (NewFloatArray(16), region 0..16).
MatrixLen == 16

\* ------------------------------------------------------------- variables
VARIABLES
    renderLoop,       \* "threaded" or "basic": the scene graph's render loop
    fault,            \* what fails in the lazy initialisation: "none", "noContext", "bindFails"
    cmp,              \* a call of State::compare: the two states and the two results
    boundingRect,     \* what QQuickItem::boundingRect() returns: QRectF(0, 0, width, height)
    itemAlive,        \* the QSurfaceTexture item is constructed and not destructed
    mTextureId,       \* QSurfaceTexture::mTextureId (0: no texture)
    mSurfaceTexture,  \* QSurfaceTexture::mSurfaceTexture (0: invalid object)
    nodeSt,           \* "none", "live" (item's paint node) or "orphan" (item gone, node awaits cleanup)
    node,             \* the fields of the SurfaceTextureNode
    evq,              \* gui thread event queue: sequence of "update" / "sync"
    itemDirty,        \* the item is in the window's dirty list
    syncPending,      \* a sync request is already in the event queue
    rpc,              \* position of the render pass: "idle","pre","fetch","store","draw"; "aborted": process gone
    hook,             \* what the pre-draw hook did in the current/last pass
    surf,             \* the SurfaceTexture object created last (the one the producer feeds)
    cbPend,           \* listener callbacks the producer thread has still to run
    created,          \* number of runs of the lazy initialisation (glGenTextures calls)
    texRel,           \* per texture name: number of effective glDeleteTextures
    refRel,           \* per scratch-array global reference: number of DeleteGlobalRef
    lsnRel,           \* per listener object reference: number of releases
    emits,            \* number of surfaceTextureChanged emissions
    uniform,          \* uSTMatrix uniform as last uploaded by updateState
    boundTex,         \* texture last bound by updateState
    thr,              \* per GPU/producer operation: the threads that invoked it
    unconsumed,       \* a notification was raised and no pull happened since
    repull,           \* the pull of the pass under way found no new frame on a node that has published before
    pullNoNotify,     \* the last pull found no notification raised since the pull before
    ep,               \* bookkeeping of the current burst of notifications
    usedAfterItem,    \* a render step ran on the node after the item's destructor
    texUsedAfterDelete, \* a render step touched a texture already deleted
    danglingUse       \* frameAvailable dispatched against a destroyed item

vars == <<renderLoop, fault, cmp, boundingRect, repull, itemAlive, mTextureId, mSurfaceTexture, nodeSt, node, evq,
          itemDirty, syncPending, rpc, hook, surf, cbPend, created, texRel,
          refRel, lsnRel, emits, uniform, boundTex, thr, unconsumed, pullNoNotify,
          ep, usedAfterItem, texUsedAfterDelete, danglingUse>>

\* --------------------------------------------------------------- helpers
Min(a, b) == IF a < b THEN a ELSE b

\* QMatrix4x4() and a fresh SurfaceTexture's transform: the identity.
Identity == [i \in 1..MatrixLen |-> IF i \in {1, 6, 11, 16} THEN 1 ELSE 0]

\* The 16 floats getTransformMatrix yields for the frame with transform id t
\* (0: the identity; two ids differ in all 16 places).
TransformOf(t) ==
    IF t = 0 THEN Identity ELSE [i \in 1..MatrixLen |-> 100 * t + i]

\* env->NewFloatArray(16): zero-initialised.
NewFloatArray == [i \in 1..MatrixLen |-> 0]

\* The thread the scene graph runs sync and render on.
RenderThread == IF renderLoop = "threaded" THEN "render" ELSE "gui"

\* The gui thread can run a handler: with the basic loop it is busy while
\* the render pass is in progress.  Nothing runs once the process aborted.
GuiFree == rpc # "aborted" /\ (renderLoop = "threaded" \/ rpc = "idle")

\* A sync request is appended unless one is queued already.
PostSync(q) == IF syncPending THEN q ELSE Append(q, "sync")

RECURSIVE WithoutUpdates(_)
\* ~QObject removes the events posted to the object (the queued "update" calls).
WithoutUpdates(q) ==
    IF q = <<>> THEN <<>>
    ELSE IF Head(q) = "update" THEN WithoutUpdates(Tail(q))
    ELSE <<Head(q)>> \o WithoutUpdates(Tail(q))

\* QRectF(x, y, w, h) with its accessors and setters as Qt defines them:
\* setTop moves the top edge and keeps the bottom edge, setBottom moves the
\* bottom edge and keeps the top edge; the height may become negative.
QRectF(x, y, w, h) == [xp |-> x, yp |-> y, w |-> w, h |-> h]
Left(r) == r.xp
Top(r) == r.yp
Right(r) == r.xp + r.w
Bottom(r) == r.yp + r.h
SetTop(r, pos) == [r EXCEPT !.yp = pos, !.h = r.h - (pos - r.yp)]
SetBottom(r, pos) == [r EXCEPT !.h = pos - r.yp]

\* The sizes the item is given (width, height).
Sizes == {<<4, 3>>, <<2, 5>>}

\* QSGGeometry::updateTexturedRectGeometry(g, rect, textureRect): the four
\* TexturedPoint2D vertices top-left, bottom-left, top-right, bottom-right
\* of rect, each with the matching corner of textureRect.
UpdateTexturedRectGeometry(rect, textureRect) ==
    <<[x |-> Left(rect),  y |-> Top(rect),
       tx |-> Left(textureRect),  ty |-> Top(textureRect)],
      [x |-> Left(rect),  y |-> Bottom(rect),
       tx |-> Left(textureRect),  ty |-> Bottom(textureRect)],
      [x |-> Right(rect), y |-> Top(rect),
       tx |-> Right(textureRect), ty |-> Top(textureRect)],
      [x |-> Right(rect), y |-> Bottom(rect),
       tx |-> Right(textureRect), ty |-> Bottom(textureRect)]>>

\* QSGGeometry(defaultAttributes_TexturedPoint2D(), 4) before it is filled.
NoGeometry == [i \in 1..4 |-> [x |-> 0, y |-> 0, tx |-> 0, ty |-> 0]]

NoNode ==
    [surface |-> 0, m_textureId |-> 0, array |-> 0, arr |-> NewFloatArray,
     flags |-> {}, material |-> FALSE, geometry |-> NoGeometry,
     state |-> [uSTMatrix |-> Identity, textureId |-> 0],
     dirty |-> {}]

\* No burst of notifications is being followed.
NoBurst == [n |-> 0, started |-> FALSE, clean |-> FALSE, upn |-> 0, pulls |-> 0]

\* No event queued, no sync pending, nothing dirty, render pass idle.
Quiescent ==
    /\ evq = <<>>
    /\ ~syncPending
    /\ ~itemDirty
    /\ rpc = "idle"
    /\ cbPend = 0

\* Before the first SurfaceTexture is constructed.
NoSurfaceTexture ==
    [id |-> 0, tex |-> 0, queued |-> -1, latched |-> 0, listener |-> FALSE]

\* ------------------------------------------------------------------ Init
\* State after QSurfaceTexture::QSurfaceTexture: the item has contents, is
\* shown in a window and therefore dirty, with its first sync requested.
\* mTextureId (declared in the header) starts at 0, mSurfaceTexture invalid.
\* What the platform will fail at is fixed per run: nothing, the GL calls
\* of updatePaintNode (no context current), or the SurfaceTexture
\* constructor (it throws).
InitItem ==
    /\ renderLoop \in {"threaded", "basic"}
    /\ fault \in {"none", "noContext", "bindFails"}
    /\ boundingRect \in {QRectF(0, 0, sz[1], sz[2]) : sz \in Sizes}
    /\ itemAlive = TRUE
    /\ mTextureId = 0
    /\ mSurfaceTexture = 0
    /\ nodeSt = "none"
    /\ node = NoNode
    /\ evq = <<"sync">>
    /\ itemDirty = TRUE
    /\ syncPending = TRUE
    /\ rpc = "idle"
    /\ hook = "none"
    /\ surf = NoSurfaceTexture
    /\ cbPend = 0
    /\ created = 0
    /\ texRel = [k \in 1..MaxCreates |-> 0]
    /\ refRel = [k \in 1..MaxCreates |-> 0]
    /\ lsnRel = [k \in 1..MaxCreates |-> 0]
    /\ emits = 0
    /\ uniform = Identity
    /\ boundTex = 0
    /\ thr = [op \in {"create", "destroy", "pull", "fetch"} |-> {}]
    /\ unconsumed = FALSE
    /\ pullNoNotify = FALSE
    /\ repull = FALSE
    /\ ep = NoBurst
    /\ usedAfterItem = FALSE
    /\ texUsedAfterDelete = FALSE
    /\ danglingUse = FALSE

\* No compare call is followed.
NoCompare ==
    [a |-> [uSTMatrix |-> Identity, textureId |-> 0],
     b |-> [uSTMatrix |-> Identity, textureId |-> 0],
     called |-> FALSE, ab |-> 0, ba |-> 0]

Init == InitItem /\ cmp = NoCompare

\* ---------------------------------------------------------------- State
\* QMatrix4x4::operator==: all 16 values equal.
MatrixEq(m1, m2) == \A i \in 1..MatrixLen : m1[i] = m2[i]

\* Variant of compare that looks at the texture only.
CompareTextureOnly(self, other) ==
    IF self.textureId = other.textureId THEN 0 ELSE -1

\* State::compare(other), called on self.
Compare(self, other) ==
    IF MatrixEq(self.uSTMatrix, other.uSTMatrix) /\ self.textureId = other.textureId
    THEN 0 ELSE -1

\* The matrices a State can hold: the identity, the transforms of frames,
\* and a matrix that differs from the identity in its last value only.
Matrices ==
    {TransformOf(t) : t \in 0..NumTransforms} \cup {[Identity EXCEPT ![MatrixLen] = 0]}

\* The material states compare can be handed.
States == [uSTMatrix : Matrices, textureId : 0..MaxCreates]

\* The scene graph compares the states of two materials, each way round.
CompareStates ==
    /\ ~cmp.called
    /\ cmp' = [cmp EXCEPT !.called = TRUE,
                          !.ab = Compare(cmp.a, cmp.b),
                          !.ba = Compare(cmp.b, cmp.a)]
    /\ UNCHANGED <<renderLoop, fault, boundingRect, repull, itemAlive, mTextureId,
                   mSurfaceTexture, nodeSt, node, evq, itemDirty, syncPending, rpc,
                   hook, surf, cbPend, created, texRel, refRel, lsnRel, emits,
                   uniform, boundTex, thr, unconsumed, pullNoNotify, ep,
                   usedAfterItem, texUsedAfterDelete, danglingUse>>

\* compare on its own: any two states, compared once.
CompareInit ==
    /\ InitItem
    /\ \E a, b \in States :
          cmp = [a |-> a, b |-> b, called |-> FALSE, ab |-> 0, ba |-> 0]

CompareSpec == CompareInit /\ [][CompareStates]_vars

\* ------------------------------------------- platform SurfaceTexture
\* new SurfaceTexture(texName): a new object (the objects are numbered
\* 1, 2, ...) attached to the texture, no frame queued, current transform
\* the identity, no listener yet.  The object constructed before, if any,
\* is referenced by neither item nor node any more.
NewSurfaceTexture(tex) ==
    [id |-> created + 1, tex |-> tex, queued |-> -1, latched |-> 0,
     listener |-> FALSE]

\* SurfaceTexture.updateTexImage(): latch the newest queued frame, if any;
\* with none queued the current image and transform stay.  Attached to no
\* texture the call fails and latches nothing.
UpdateTexImage(s) ==
    IF surf.id # s \/ surf.tex = 0 THEN surf
    ELSE [surf EXCEPT !.latched = IF surf.queued = -1 THEN @ ELSE surf.queued,
                      !.queued = -1]

\* SurfaceTexture.getTransformMatrix(float[16]): the transform of the
\* latched frame, all 16 values.
GetTransformMatrix(s) == TransformOf(IF surf.id = s THEN surf.latched ELSE 0)

\* JNIEnv::GetFloatArrayRegion(array, start, len, buf): buf[0..len) becomes
\* array[start..start+len); the rest of buf is left as it is.
GetFloatArrayRegion(array, start, len, buf) ==
    [i \in DOMAIN buf |-> IF i <= len THEN array[start + i] ELSE buf[i]]

\* ------------------------------------------------- SurfaceTextureNode
\* Variant of the node constructor that leaves the material state's
\* textureId at its default.
NewSurfaceTextureNodeNoTexture(surfaceTexture, textureId) ==
    [surface |-> surfaceTexture,
     m_textureId |-> textureId,
     array |-> created + 1,
     arr |-> NewFloatArray,
     flags |-> {"UsePreprocess", "OwnsMaterial"},
     material |-> TRUE,
     geometry |-> NoGeometry,
     state |-> [uSTMatrix |-> Identity, textureId |-> 0],
     dirty |-> {}]

\* SurfaceTextureNode::SurfaceTextureNode(surfaceTexture, textureId): the
\* material is created with a default State (identity matrix) whose
\* textureId is the given one; the scratch array is a fresh global
\* reference (numbered like the creation it belongs to).
NewSurfaceTextureNode(surfaceTexture, textureId) ==
    [surface |-> surfaceTexture,
     m_textureId |-> textureId,
     array |-> created + 1,
     arr |-> NewFloatArray,
     flags |-> {"UsePreprocess", "OwnsMaterial"},
     material |-> TRUE,
     geometry |-> NoGeometry,
     state |-> [uSTMatrix |-> Identity, textureId |-> textureId],
     dirty |-> {}]

\* SurfaceTextureNode::~SurfaceTextureNode, run by the scene graph on the
\* render thread: DeleteGlobalRef(m_uSTMatrixArray).
DeleteNode ==
    /\ refRel' = [refRel EXCEPT ![node.array] = Min(@ + 1, 2)]
    /\ node' = NoNode
    /\ nodeSt' = "none"

\* ----------------------------------------------------- QSurfaceTexture
\* Variant of the flip without the temporary: the bottom edge is set from
\* the top edge that was just overwritten.
FlipVerticalNoTmp(rect) ==
    LET r1 == SetTop(rect, Bottom(rect))
    IN  SetBottom(r1, Top(r1))

\* updatePaintNode, "flip vertical": tmp = rect.top();
\* rect.setTop(rect.bottom()); rect.setBottom(tmp).  (tmp is a float; the
\* integral coordinates used here convert exactly.)
FlipVertical(rect) ==
    LET tmp == Top(rect)
        r1  == SetTop(rect, Bottom(rect))
    IN  SetBottom(r1, tmp)

\* QSurfaceTexture::updatePaintNode(n, _), n = "null" (nullptr) or "node"
\* (the node returned last time).  glGenTextures yields a fresh name (the
\* names are numbered 1, 2, ...).  The listener object is a temporary
\* QAndroidJniObject: its reference is dropped at the end of the statement
\* while the SurfaceTexture keeps the listener, which holds jlong(this).
\* No result is checked.  Without a current context glGenTextures writes
\* no name and mTextureId stays as it was; when the SurfaceTexture
\* constructor throws, mSurfaceTexture stays invalid and setting the
\* listener on it does nothing.  The node is constructed and returned all
\* the same.  Then, for a new node and an old one alike, the bounding
\* rectangle is flipped, the quad is written and both dirty bits are set.
UpdatePaintNode(n) ==
    LET quad == UpdateTexturedRectGeometry(FlipVertical(boundingRect),
                                           QRectF(0, 0, 1, 1))
        bits == {"DirtyGeometry", "DirtyMaterial"}
    IN
    IF n = "null"
    THEN LET tex == IF fault = "noContext" THEN mTextureId ELSE created + 1
             st  == NewSurfaceTexture(tex)
             sid == IF fault = "bindFails" THEN 0 ELSE st.id
         IN  /\ created' = created + 1
             /\ mTextureId' = tex
             /\ thr' = [thr EXCEPT !["create"] = @ \cup {RenderThread}]
             /\ surf' = IF fault = "bindFails" THEN surf
                        ELSE [st EXCEPT !.listener = TRUE]
             /\ mSurfaceTexture' = sid
             /\ lsnRel' = [lsnRel EXCEPT ![created + 1] = Min(@ + 1, 2)]
             /\ node' = [NewSurfaceTextureNode(sid, tex)
                           EXCEPT !.geometry = quad, !.dirty = bits]
             /\ nodeSt' = "live"
             /\ emits' = emits + 1
    ELSE /\ node' = [node EXCEPT !.geometry = quad, !.dirty = @ \cup bits]
         /\ UNCHANGED <<created, mTextureId, thr, surf, mSurfaceTexture, lsnRel,
                        nodeSt, emits>>

\* glDeleteTextures(1, &mTextureId) issued by the given thread.  On the
\* render thread the context is current and the name is deleted.  The gui
\* thread of the threaded loop has no claim to a current context: the call
\* may delete the name or do nothing.
GlDeleteTextures(thread, tex) ==
    /\ thr' = [thr EXCEPT !["destroy"] = @ \cup {thread}]
    /\ \E effective \in (IF thread = RenderThread THEN {TRUE} ELSE BOOLEAN) :
          texRel' = IF effective THEN [texRel EXCEPT ![tex] = Min(@ + 1, 2)]
                    ELSE texRel

\* QSurfaceTexture::~QSurfaceTexture, on the gui thread (the thread the
\* item lives on).  ~QObject drops the queued "update" calls; the scene
\* graph keeps the paint node until the next sync cleans it up, and is
\* asked for a frame to do so.
DestroyItem ==
    /\ itemAlive
    /\ GuiFree
    /\ IF mTextureId # 0
       THEN GlDeleteTextures("gui", mTextureId)
       ELSE UNCHANGED <<thr, texRel>>
    /\ itemAlive' = FALSE
    /\ mSurfaceTexture' = 0
    /\ itemDirty' = FALSE
    /\ nodeSt' = IF nodeSt = "live" THEN "orphan" ELSE nodeSt
    /\ evq' = IF nodeSt = "live" THEN PostSync(WithoutUpdates(evq))
              ELSE WithoutUpdates(evq)
    /\ syncPending' = (syncPending \/ nodeSt = "live")
    /\ ep' = NoBurst
    /\ UNCHANGED <<renderLoop, fault, cmp, boundingRect, repull, mTextureId, node, rpc, hook, surf, cbPend, created,
                   refRel, lsnRel, emits, uniform, boundTex, unconsumed, pullNoNotify,
                   usedAfterItem, texUsedAfterDelete, danglingUse>>

\* ------------------------------------------------------ producer thread
\* The decoder queues a frame with transform t into the SurfaceTexture it
\* was last handed, which then calls its listener on the producer thread.
Produce(t) ==
    /\ rpc # "aborted"
    /\ surf.id # 0
    /\ cbPend = 0
    /\ surf.listener
    /\ surf' = [surf EXCEPT !.queued = t]
    /\ cbPend' = 1
    /\ UNCHANGED <<renderLoop, fault, cmp, boundingRect, repull, itemAlive, mTextureId, mSurfaceTexture, nodeSt, node,
                   evq, itemDirty, syncPending, rpc, hook, created, texRel, refRel,
                   lsnRel, emits, uniform, boundTex, thr, unconsumed, pullNoNotify, ep,
                   usedAfterItem, texUsedAfterDelete, danglingUse>>

\* Burst bookkeeping at a notification: a burst starts with a notification
\* that finds the receiving side at rest, and grows while none of its
\* queued calls has been dispatched.
BurstAtNotify ==
    IF evq = <<>> /\ ~syncPending /\ ~itemDirty /\ rpc = "idle"
    THEN [n |-> 1, started |-> FALSE, clean |-> TRUE, upn |-> 0, pulls |-> 0]
    ELSE IF ep.clean /\ ~ep.started
    THEN [ep EXCEPT !.n = @ + 1]
    ELSE NoBurst

\* Variant of frameAvailable that pulls the frame in the callback itself
\* (updateTexImage on the producer thread) besides posting the update.
FrameAvailablePullsInCallback ==
    /\ rpc # "aborted"
    /\ cbPend > 0
    /\ cbPend' = cbPend - 1
    /\ IF itemAlive
       THEN /\ Len(evq) < MaxQueue
            /\ evq' = Append(evq, "update")
            /\ unconsumed' = TRUE
            /\ surf' = UpdateTexImage(mSurfaceTexture)
            /\ thr' = [thr EXCEPT !["pull"] = @ \cup {"producer"}]
            /\ ep' = [BurstAtNotify EXCEPT !.pulls = IF BurstAtNotify.clean
                                                    THEN Min(@ + 1, 2) ELSE @]
            /\ UNCHANGED danglingUse
       ELSE /\ danglingUse' = TRUE
            /\ UNCHANGED <<evq, unconsumed, ep, surf, thr>>
    /\ UNCHANGED <<renderLoop, fault, cmp, boundingRect, repull, itemAlive, mTextureId, mSurfaceTexture, nodeSt, node,
                   itemDirty, syncPending, rpc, hook, created, texRel, refRel,
                   lsnRel, emits, uniform, boundTex, pullNoNotify, usedAfterItem,
                   texUsedAfterDelete>>

\* Variant of frameAvailable with Qt::DirectConnection: update() runs on the
\* producer thread, where the item is marked dirty but the window's frame
\* request is refused (frames can be requested from the gui thread only).
FrameAvailableDirect ==
    /\ rpc # "aborted"
    /\ cbPend > 0
    /\ cbPend' = cbPend - 1
    /\ IF itemAlive
       THEN /\ itemDirty' = TRUE
            /\ unconsumed' = TRUE
            /\ ep' = NoBurst
            /\ UNCHANGED danglingUse
       ELSE /\ danglingUse' = TRUE
            /\ UNCHANGED <<itemDirty, unconsumed, ep>>
    /\ UNCHANGED <<renderLoop, fault, cmp, boundingRect, repull, itemAlive, mTextureId, mSurfaceTexture, nodeSt, node,
                   evq, syncPending, rpc, hook, surf, created, texRel, refRel,
                   lsnRel, emits, uniform, boundTex, thr, pullNoNotify,
                   usedAfterItem, texUsedAfterDelete>>

\* Java_com_vadim_android_SurfaceTextureListener_frameAvailable(ptr):
\* QMetaObject::invokeMethod(item, "update", Qt::QueuedConnection) posts
\* one call of update() to the item's thread and returns.  With the item
\* already destroyed ptr dangles.
FrameAvailable ==
    /\ rpc # "aborted"
    /\ cbPend > 0
    /\ cbPend' = cbPend - 1
    /\ IF itemAlive
       THEN /\ Len(evq) < MaxQueue
            /\ evq' = Append(evq, "update")
            /\ unconsumed' = TRUE
            /\ ep' = BurstAtNotify
            /\ UNCHANGED danglingUse
       ELSE /\ danglingUse' = TRUE
            /\ UNCHANGED <<evq, unconsumed, ep>>
    /\ UNCHANGED <<renderLoop, fault, cmp, boundingRect, repull, itemAlive, mTextureId, mSurfaceTexture, nodeSt, node,
                   itemDirty, syncPending, rpc, hook, surf, created, texRel, refRel,
                   lsnRel, emits, uniform, boundTex, thr, pullNoNotify,
                   usedAfterItem, texUsedAfterDelete>>

\* ----------------------------------------------------------- gui thread
\* The gui thread dispatches a queued update(): QQuickItem::update() puts
\* the item in the dirty list and asks the window for a frame (one request
\* at most is outstanding).
DispatchUpdate ==
    /\ evq # <<>>
    /\ Head(evq) = "update"
    /\ GuiFree
    /\ itemDirty' = TRUE
    /\ evq' = PostSync(Tail(evq))
    /\ syncPending' = TRUE
    /\ ep' = IF ep.clean THEN [ep EXCEPT !.started = TRUE] ELSE ep
    /\ UNCHANGED <<renderLoop, fault, cmp, boundingRect, repull, itemAlive, mTextureId, mSurfaceTexture, nodeSt, node,
                   rpc, hook, surf, cbPend, created, texRel, refRel, lsnRel, emits,
                   uniform, boundTex, thr, unconsumed, pullNoNotify, usedAfterItem,
                   texUsedAfterDelete, danglingUse>>

\* Something other than a frame notification asks for a frame: another
\* item or an expose (d = FALSE), or update() called on this item (d = TRUE).
RequestFrame(d) ==
    /\ GuiFree
    /\ ~syncPending
    /\ d => itemAlive
    /\ itemDirty' = (itemDirty \/ d)
    /\ evq' = PostSync(evq)
    /\ syncPending' = TRUE
    /\ ep' = NoBurst
    /\ UNCHANGED <<renderLoop, fault, cmp, boundingRect, repull, itemAlive, mTextureId, mSurfaceTexture, nodeSt, node,
                   rpc, hook, surf, cbPend, created, texRel, refRel, lsnRel, emits,
                   uniform, boundTex, thr, unconsumed, pullNoNotify, usedAfterItem,
                   texUsedAfterDelete, danglingUse>>

\* The item is resized (setSize, anchors): QQuickItem marks it dirty and
\* asks the window for a frame.
SetSize(sz) ==
    /\ itemAlive
    /\ GuiFree
    /\ boundingRect # QRectF(0, 0, sz[1], sz[2])
    /\ boundingRect' = QRectF(0, 0, sz[1], sz[2])
    /\ itemDirty' = TRUE
    /\ evq' = PostSync(evq)
    /\ syncPending' = TRUE
    /\ ep' = NoBurst
    /\ UNCHANGED <<renderLoop, fault, cmp, repull, itemAlive, mTextureId, mSurfaceTexture,
                   nodeSt, node, rpc, hook, surf, cbPend, created, texRel, refRel, lsnRel,
                   emits, uniform, boundTex, thr, unconsumed, pullNoNotify,
                   usedAfterItem, texUsedAfterDelete, danglingUse>>

\* The scene graph releases the item's node while the item lives on (the
\* scene graph is invalidated, or the item leaves its window): the node is
\* deleted on the render thread and the next updatePaintNode gets nullptr.
ReleaseNode ==
    /\ itemAlive
    /\ nodeSt = "live"
    /\ rpc = "idle"
    /\ created < MaxCreates
    /\ DeleteNode
    /\ ep' = NoBurst
    /\ UNCHANGED <<renderLoop, fault, cmp, boundingRect, repull, itemAlive, mTextureId, mSurfaceTexture, evq, itemDirty,
                   syncPending, rpc, hook, surf, cbPend, created, texRel, lsnRel,
                   emits, uniform, boundTex, thr, unconsumed, pullNoNotify, usedAfterItem,
                   texUsedAfterDelete, danglingUse>>

\* The gui thread dispatches the sync request and the scene graph syncs on
\* the render thread with the gui thread blocked: nodes of destroyed items
\* are deleted, a dirty item gets updatePaintNode, and the render pass
\* starts; a node flagged UsePreprocess gets preprocess() first.
Sync ==
    /\ evq # <<>>
    /\ Head(evq) = "sync"
    /\ rpc = "idle"
    /\ evq' = Tail(evq)
    /\ syncPending' = FALSE
    /\ itemDirty' = FALSE
    /\ hook' = "none"
    /\ IF nodeSt = "orphan"
       THEN /\ DeleteNode
            /\ UNCHANGED <<created, mTextureId, thr, surf, mSurfaceTexture, lsnRel,
                           emits, ep>>
       ELSE IF itemAlive /\ itemDirty
       THEN /\ UpdatePaintNode(IF nodeSt = "live" THEN "node" ELSE "null")
            /\ ep' = IF ep.clean THEN [ep EXCEPT !.upn = Min(@ + 1, 2)] ELSE ep
            /\ UNCHANGED refRel
       ELSE UNCHANGED <<created, mTextureId, thr, surf, mSurfaceTexture, lsnRel,
                        emits, ep, refRel, node, nodeSt>>
    /\ rpc' = IF nodeSt' # "live" THEN "idle"
              ELSE IF "UsePreprocess" \in node'.flags THEN "pre"
              ELSE "draw"
    /\ UNCHANGED <<renderLoop, fault, cmp, boundingRect, repull, itemAlive, cbPend, texRel, uniform, boundTex,
                   unconsumed, pullNoNotify, usedAfterItem, texUsedAfterDelete, danglingUse>>

\* ------------------------------------------------------- render thread
\* What a render step records about the lifetime of what it touches.
LateUse ==
    /\ usedAfterItem' = (usedAfterItem \/ ~itemAlive)
    /\ texUsedAfterDelete' =
          (texUsedAfterDelete \/ (node.m_textureId # 0 /\ texRel[node.m_textureId] > 0))

\* What a pull records for the repeat case: the SurfaceTexture has no new
\* frame queued and the node's scratch array has been fetched into before
\* (a pass over this node has published already).
Repull ==
    /\ surf.id = node.surface
    /\ surf.queued = -1
    /\ node.arr # NewFloatArray

\* The node was built over a null SurfaceTexture or over texture name 0.
InvalidHandles == node.surface = 0 \/ node.m_textureId = 0

\* preprocess on a node with invalid handles: env->CallVoidMethod on a null
\* object, or with the exception of the failed updateTexImage pending, is
\* undefined.  Either the runtime aborts the process (this action: nothing
\* runs any more and the item is gone with the process) or the calls are
\* ignored (PreprocessPull and the steps after it).
PreprocessAbort ==
    /\ rpc = "pre"
    /\ node.material
    /\ InvalidHandles
    /\ rpc' = "aborted"
    /\ itemAlive' = FALSE
    /\ UNCHANGED <<renderLoop, fault, cmp, boundingRect, repull, mTextureId, mSurfaceTexture, nodeSt, node, evq,
                   itemDirty, syncPending, hook, surf, cbPend, created, texRel,
                   refRel, lsnRel, emits, uniform, boundTex, thr, unconsumed,
                   pullNoNotify, ep, usedAfterItem, texUsedAfterDelete, danglingUse>>

\* Variant of preprocess with a pending-frame check: the pull is skipped
\* when no notification was raised since the last pull.
PreprocessPullIfPending ==
    /\ rpc = "pre"
    /\ IF ~node.material \/ ~unconsumed
       THEN /\ rpc' = "draw"
            /\ hook' = "skipped"
            /\ UNCHANGED <<repull, surf, thr, unconsumed, pullNoNotify, ep, usedAfterItem,
                           texUsedAfterDelete>>
       ELSE /\ surf' = UpdateTexImage(node.surface)
            /\ thr' = [thr EXCEPT !["pull"] = @ \cup {RenderThread}]
            /\ unconsumed' = FALSE
            /\ pullNoNotify' = FALSE
            /\ ep' = IF ep.clean THEN [ep EXCEPT !.pulls = Min(@ + 1, 2)] ELSE ep
            /\ repull' = Repull
            /\ LateUse
            /\ rpc' = "fetch"
            /\ hook' = "pulled"
    /\ UNCHANGED <<renderLoop, fault, cmp, boundingRect, itemAlive, mTextureId, mSurfaceTexture, nodeSt, node,
                   evq, itemDirty, syncPending, cbPend, created, texRel, refRel,
                   lsnRel, emits, uniform, boundTex, danglingUse>>

\* SurfaceTextureNode::preprocess, first part: the material check and
\* updateTexImage.
PreprocessPull ==
    /\ rpc = "pre"
    /\ IF ~node.material
       THEN /\ rpc' = "draw"
            /\ hook' = "skipped"
            /\ UNCHANGED <<repull, surf, thr, unconsumed, pullNoNotify, ep, usedAfterItem,
                           texUsedAfterDelete>>
       ELSE /\ surf' = UpdateTexImage(node.surface)
            /\ thr' = [thr EXCEPT !["pull"] = @ \cup {RenderThread}]
            /\ unconsumed' = FALSE
            /\ pullNoNotify' = (~unconsumed /\ thr["pull"] # {})
            /\ ep' = IF ep.clean THEN [ep EXCEPT !.pulls = Min(@ + 1, 2)] ELSE ep
            /\ repull' = Repull
            /\ LateUse
            /\ rpc' = "fetch"
            /\ hook' = "pulled"
    /\ UNCHANGED <<renderLoop, fault, cmp, boundingRect, itemAlive, mTextureId, mSurfaceTexture, nodeSt, node,
                   evq, itemDirty, syncPending, cbPend, created, texRel, refRel,
                   lsnRel, emits, uniform, boundTex, danglingUse>>

\* preprocess, second part: getTransformMatrix into the scratch array
\* (nothing is written when the call on a null object is ignored).
PreprocessFetch ==
    /\ rpc = "fetch"
    /\ node' = [node EXCEPT !.arr = IF node.surface = 0 THEN @
                                    ELSE GetTransformMatrix(node.surface)]
    /\ thr' = [thr EXCEPT !["fetch"] = @ \cup {RenderThread}]
    /\ LateUse
    /\ rpc' = "store"
    /\ UNCHANGED <<renderLoop, fault, cmp, boundingRect, repull, itemAlive, mTextureId, mSurfaceTexture, nodeSt, evq,
                   itemDirty, syncPending, hook, surf, cbPend, created, texRel,
                   refRel, lsnRel, emits, uniform, boundTex, unconsumed, pullNoNotify, ep,
                   danglingUse>>

\* Variant of the store that copies three of the four columns only.
PreprocessStorePartial ==
    /\ rpc = "store"
    /\ node' = [node EXCEPT !.state.uSTMatrix =
                    GetFloatArrayRegion(node.arr, 0, MatrixLen - 4, @)]
    /\ LateUse
    /\ rpc' = "draw"
    /\ hook' = "published"
    /\ UNCHANGED <<renderLoop, fault, cmp, boundingRect, repull, itemAlive, mTextureId, mSurfaceTexture, nodeSt, evq,
                   itemDirty, syncPending, surf, cbPend, created, texRel, refRel,
                   lsnRel, emits, uniform, boundTex, thr, unconsumed, pullNoNotify,
                   ep, danglingUse>>

\* Variant of the store that multiplies the fetched transform onto the
\* matrix already in the material state instead of replacing it (the
\* QMatrix4x4 product of two matrices stored column by column).
PreprocessStoreMultiplies ==
    /\ rpc = "store"
    /\ LET MatMul(a, b) ==
              [i \in 1..MatrixLen |->
                  LET r == ((i - 1) % 4) + 1
                      c == 4 * ((i - 1) \div 4)
                  IN  a[r] * b[c + 1] + a[4 + r] * b[c + 2]
                        + a[8 + r] * b[c + 3] + a[12 + r] * b[c + 4]]
       IN  node' = [node EXCEPT !.state.uSTMatrix = MatMul(@, node.arr)]
    /\ LateUse
    /\ rpc' = "draw"
    /\ hook' = "published"
    /\ UNCHANGED <<renderLoop, fault, cmp, boundingRect, repull, itemAlive, mTextureId,
                   mSurfaceTexture, nodeSt, evq, itemDirty, syncPending, surf, cbPend,
                   created, texRel, refRel, lsnRel, emits, uniform, boundTex, thr,
                   unconsumed, pullNoNotify, ep, danglingUse>>

\* preprocess, last part: GetFloatArrayRegion(array, 0, 16, uSTMatrix.data()).
PreprocessStore ==
    /\ rpc = "store"
    /\ node' = [node EXCEPT !.state.uSTMatrix =
                    GetFloatArrayRegion(node.arr, 0, MatrixLen, @)]
    /\ LateUse
    /\ rpc' = "draw"
    /\ hook' = "published"
    /\ UNCHANGED <<renderLoop, fault, cmp, boundingRect, repull, itemAlive, mTextureId, mSurfaceTexture, nodeSt, evq,
                   itemDirty, syncPending, surf, cbPend, created, texRel, refRel,
                   lsnRel, emits, uniform, boundTex, thr, unconsumed, pullNoNotify, ep,
                   danglingUse>>

\* SurfaceTextureShader::updateState(state, _) at the draw call: upload the
\* matrix, bind the texture.  The renderer then clears the node's dirty bits.
UpdateState ==
    /\ rpc = "draw"
    /\ uniform' = node.state.uSTMatrix
    /\ boundTex' = node.state.textureId
    /\ node' = [node EXCEPT !.dirty = {}]
    /\ repull' = FALSE
    /\ LateUse
    /\ rpc' = "idle"
    /\ UNCHANGED <<renderLoop, fault, cmp, boundingRect, itemAlive, mTextureId, mSurfaceTexture, nodeSt, evq,
                   itemDirty, syncPending, hook, surf, cbPend, created, texRel,
                   refRel, lsnRel, emits, thr, unconsumed, pullNoNotify, ep, danglingUse>>

\* -------------------------------------------------------- specification
Next ==
    \/ \E t \in 0..NumTransforms : Produce(t)
    \/ FrameAvailable
    \/ DispatchUpdate
    \/ \E d \in BOOLEAN : RequestFrame(d)
    \/ \E sz \in Sizes : SetSize(sz)
    \/ ReleaseNode
    \/ Sync
    \/ PreprocessPull
    \/ PreprocessAbort
    \/ PreprocessFetch
    \/ PreprocessStore
    \/ UpdateState
    \/ DestroyItem

Spec == Init /\ [][Next]_vars

\* The event loop of the gui thread keeps dispatching and the render thread
\* keeps running the pass it has started.
FairSpec ==
    /\ Spec
    /\ WF_vars(DispatchUpdate)
    /\ WF_vars(Sync)
    /\ WF_vars(PreprocessPull)
    /\ WF_vars(PreprocessFetch)
    /\ WF_vars(PreprocessStore)
    /\ WF_vars(UpdateState)

TypeOK ==
    /\ renderLoop \in {"threaded", "basic"}
    /\ itemAlive \in BOOLEAN
    /\ mTextureId \in 0..MaxCreates
    /\ created \in 0..MaxCreates
    /\ surf.id = (IF fault = "bindFails" THEN 0 ELSE created)
    /\ nodeSt \in {"none", "live", "orphan"}
    /\ fault \in {"none", "noContext", "bindFails"}
    /\ rpc \in {"idle", "pre", "fetch", "store", "draw", "aborted"}
    /\ rpc # "idle" => nodeSt # "none"
    /\ Len(evq) <= MaxQueue + 1
    /\ boundingRect \in {QRectF(0, 0, sz[1], sz[2]) : sz \in Sizes}
    /\ repull \in BOOLEAN
    /\ repull => rpc \in {"fetch", "store", "draw"}
    /\ cmp.a \in States /\ cmp.b \in States
    /\ cmp.ab \in {0, -1} /\ cmp.ba \in {0, -1}

\* ---------------------------------------------------------------- claims

C2_CreatedOnce ==
    /\ created <= 1
    /\ surf.id <= 1

\* C3 (exactly-once release), as claimed: once the item is destructed and
\* its node deleted, every texture name, scratch-array global reference and
\* listener reference acquired has been released exactly once.
C3_ReleasedOnce ==
    (~itemAlive /\ nodeSt = "none") =>
        \A k \in 1..created :
            /\ fault # "noContext" => texRel[k] = 1
            /\ refRel[k] = 1
            /\ lsnRel[k] = 1

\* C4 (force-publish).  A render pass over the node reaches its draw call
\* only through the pre-draw hook, with updateTexImage done and the fetched
\* transform stored; between pull and store the hook is under way.  No
\* check of a pending notification lets a pass skip the pull.
C4_ForcePublish ==
    /\ rpc = "draw" => hook = "published"
    /\ rpc \in {"fetch", "store"} => hook = "pulled"
    /\ (rpc = "idle" /\ hook # "none") => hook = "published"

\* A pass at its draw call whose pull found no notification raised since
\* the pull of the pass before.
C4_Witness ==
    /\ rpc = "draw"
    /\ hook = "published"
    /\ pullNoNotify
    /\ ~unconsumed

\* C5 (transform freshness).  For a node with a SurfaceTexture bound: at
\* the draw call the material state's matrix is, in all 16 places, the
\* transform of the frame the pass's pull latched; and when the pass is
\* over that is the matrix updateState has uploaded.
C5_TransformFresh ==
    /\ (rpc = "draw" /\ node.surface # 0) =>
          /\ surf.id = node.surface
          /\ node.state.uSTMatrix = TransformOf(surf.latched)
    /\ (rpc = "idle" /\ hook = "published" /\ nodeSt # "none" /\ node.surface # 0) =>
          /\ surf.id = node.surface
          /\ uniform = TransformOf(surf.latched)

\* A finished pass that latched a frame with a non-identity transform while
\* the producer has already queued a newer frame with another transform.
C5_Witness ==
    /\ rpc = "idle"
    /\ hook = "published"
    /\ nodeSt = "live"
    /\ surf.latched # 0
    /\ surf.queued \notin {-1, surf.latched}
    /\ uniform = TransformOf(surf.latched)

\* C6 (no cross-thread GPU access), as claimed: texture create, texture
\* destroy, pull and fetch have all been invoked by one and the same thread.
C6_SingleThread ==
    Cardinality(thr["create"] \cup thr["destroy"] \cup thr["pull"] \cup thr["fetch"]) <= 1

\* C7 (shutdown ordering), as claimed: no render step (pull, fetch, store,
\* draw-time bind) runs on the node after its item is destructed, nor
\* touches the texture after it is deleted.
C7_NoUseAfterTeardown ==
    /\ ~usedAfterItem
    /\ ~texUsedAfterDelete

\* C8 (producer-side frame).  A step of the listener callback changes
\* nothing of the item's texture id and SurfaceTexture, of the node and its
\* material state, of the SurfaceTexture objects, of what the shader has
\* uploaded, and invokes no GPU or producer operation; for a live item it
\* appends exactly one queued update() call.
C8_ProducerSideFrame ==
    [][cbPend' < cbPend =>
          /\ UNCHANGED <<mTextureId, mSurfaceTexture, created, nodeSt, node, surf,
                         uniform, boundTex, thr, texRel, rpc>>
          /\ itemAlive => evq' = Append(evq, "update")]_vars

\* The callback has run for a frame that is still queued, unpulled, and
\* its update() call waits in the event queue.
C8_Witness ==
    /\ itemAlive
    /\ cbPend = 0
    /\ unconsumed
    /\ surf.queued # -1
    /\ evq # <<>>
    /\ evq[Len(evq)] = "update"
    /\ "producer" \notin (thr["pull"] \cup thr["fetch"])

\* C9 (change notification), as claimed: surfaceTextureChanged is emitted
\* once, with the first producer handle, and never again.
C9_EmittedOnce ==
    /\ emits <= 1
    /\ created >= 1 => emits = 1

\* C10 (no lost frame signal), as claimed: every notification is
\* eventually followed by a pull.
C10_EveryNotificationPulled == unconsumed ~> ~unconsumed

\* C10 as amended: every notification raised while the item is alive is
\* eventually followed by a pull, unless the item is destructed first.
C10_NoLostSignal == unconsumed ~> (~unconsumed \/ ~itemAlive)

\* A burst of merged notifications of a live item, just pulled.
C10_Witness ==
    /\ itemAlive
    /\ rpc = "fetch"
    /\ ~unconsumed
    /\ ep.clean
    /\ ep.n >= 2
    /\ ep.pulls = 1

\* C11 (failed initialisation leaves nothing live), as claimed: when the
\* texture name is still 0 after glGenTextures or the SurfaceTexture could
\* not be constructed, no node is constructed and returned: a node the
\* scene graph holds for the item has a texture name and a SurfaceTexture.
C11_FailedInitNoNode ==
    nodeSt = "live" => (node.m_textureId # 0 /\ node.surface # 0)

\* A step in which the scene graph calls updatePaintNode on the live item.
UpdatePaintNodeStep == itemAlive /\ itemDirty /\ ~itemDirty' /\ itemAlive'

\* C12 (geometry flip).  With the bounding rectangle (x0, y0, x1, y1), the
\* quad updatePaintNode leaves in the node has one vertex per texture
\* corner; texture v = 0 sits on the bottom edge y1 and v = 1 on the top
\* edge y0, while u = 0 sits on x0 and u = 1 on x1.
C12_GeometryFlip ==
    [][UpdatePaintNodeStep =>
          LET g  == node'.geometry
              x0 == Left(boundingRect)
              y0 == Top(boundingRect)
              x1 == Right(boundingRect)
              y1 == Bottom(boundingRect)
          IN  /\ {<<g[i].tx, g[i].ty>> : i \in 1..4} = {0, 1} \X {0, 1}
              /\ \A i \in 1..4 :
                    /\ g[i].x = (IF g[i].tx = 0 THEN x0 ELSE x1)
                    /\ g[i].y = (IF g[i].ty = 0 THEN y1 ELSE y0)]_vars

\* The node at the start of a pass after its first one, the quad written
\* for the item's rectangle: texture corner (0, 0) at the bottom-left,
\* (1, 1) at the top-right.
C12_Witness ==
    /\ nodeSt = "live"
    /\ rpc = "pre"
    /\ node.geometry # NoGeometry
    /\ uniform # Identity
    /\ \E i, j \in 1..4 :
          /\ node.geometry[i] = [x |-> Left(boundingRect), y |-> Bottom(boundingRect),
                                 tx |-> 0, ty |-> 0]
          /\ node.geometry[j] = [x |-> Right(boundingRect), y |-> Top(boundingRect),
                                 tx |-> 1, ty |-> 1]
    /\ Bottom(boundingRect) > Top(boundingRect)

\* C13 (pull-then-fetch ordering).  Pull and fetch are only ever invoked by
\* the render thread.  Once the hook has pulled, the next thing done to the
\* node is the fetch into its scratch array, by the render thread, and the
\* next after that the store into the material state's matrix; until the
\* store is done there is no draw-time upload or bind, no further pull, no
\* change of the latched frame and no other change of the node.
C13_PullFetchStore ==
    [][/\ (thr'["pull"] \cup thr'["fetch"]) \subseteq {RenderThread}
       /\ rpc \in {"fetch", "store"} =>
             /\ rpc' \in {rpc, IF rpc = "fetch" THEN "store" ELSE "draw"}
             /\ UNCHANGED <<uniform, boundTex>>
             /\ thr'["pull"] = thr["pull"]
             /\ surf'.id = surf.id
             /\ surf'.latched = surf.latched
             /\ rpc' = rpc => (node' = node /\ thr'["fetch"] = thr["fetch"])
             /\ (rpc = "fetch" /\ rpc' = "store") =>
                   /\ node' = [node EXCEPT !.arr = node'.arr]
                   /\ RenderThread \in thr'["fetch"]
             /\ (rpc = "store" /\ rpc' = "draw") =>
                   /\ node' = [node EXCEPT !.state.uSTMatrix = node'.state.uSTMatrix]
                   /\ hook' = "published"]_vars

\* Between fetch and store: the scratch array holds the transform of the
\* frame just latched, the material state still the one before, and the
\* producer has queued a newer frame meanwhile.
C13_Witness ==
    /\ rpc = "store"
    /\ surf.latched # 0
    /\ node.arr = TransformOf(surf.latched)
    /\ node.state.uSTMatrix # node.arr
    /\ surf.queued # -1

\* C14 (material marked dirty by the hook), as claimed: a pass whose hook
\* has pulled and published reaches its draw call with the node's material
\* marked dirty, whether or not updatePaintNode ran for the item in that
\* pass.
C14_MaterialDirtyAtDraw ==
    (rpc = "draw" /\ hook = "published") => "DirtyMaterial" \in node.dirty

\* C15 (pull/fetch idempotent on repeat).  When the pull of a pass finds no
\* new frame (the producer delivered none since the pass before, or has
\* not started), the pass goes on to its store, and the store leaves the
\* material state - matrix and texture id - as the pass before published it.
C15_RepeatIdempotent ==
    [][/\ (rpc = "fetch" /\ repull) => rpc' \in {"fetch", "store"}
       /\ (rpc = "store" /\ repull) => rpc' \in {"store", "draw"}
       /\ (rpc = "store" /\ rpc' = "draw" /\ repull) => node'.state = node.state]_vars

\* A repeated pass at its draw call: no new frame at its pull, and the
\* matrix it published is the non-identity transform the pass before has
\* uploaded.
C15_Witness ==
    /\ rpc = "draw"
    /\ repull
    /\ hook = "published"
    /\ surf.latched # 0
    /\ node.state.uSTMatrix = TransformOf(surf.latched)
    /\ uniform = node.state.uSTMatrix

\* C16 (geometry once per bounds change), as claimed: an updatePaintNode
\* call that finds the node's quad already the one for the item's bounding
\* rectangle (the rectangle has not changed since the call before) does
\* not mark the geometry dirty.
C16_GeometryOncePerBounds ==
    [][(/\ UpdatePaintNodeStep
        /\ nodeSt = "live"
        /\ node.geometry = UpdateTexturedRectGeometry(FlipVertical(boundingRect),
                                                      QRectF(0, 0, 1, 1)))
          => "DirtyGeometry" \notin node'.dirty]_vars

\* C17 (state compare).  For any two states a and b, compare(a, b) is 0
\* when a and b agree in all 16 values of the transform and in the texture
\* id, is not 0 when they differ in any of these, and compare(b, a) gives
\* the same result.
C17_CompareEquality ==
    cmp.called =>
        /\ (cmp.ab = 0) <=> (cmp.a = cmp.b)
        /\ cmp.ab = cmp.ba

\* Compared: two states with the same texture id whose transforms differ
\* in one value only.
C17_Witness ==
    /\ cmp.called
    /\ cmp.a.textureId = cmp.b.textureId
    /\ Cardinality({i \in 1..MatrixLen : cmp.a.uSTMatrix[i] # cmp.b.uSTMatrix[i]}) = 1
    /\ cmp.ab # 0

\* C18 (texture id binding).  The texture id in the material state of a
\* node is the one the node was constructed with, in every pass and after
\* every hook step; for the item's node that is the item's mTextureId, and
\* the texture the node's SurfaceTexture was constructed on.
C18_TextureIdBound ==
    /\ nodeSt # "none" => node.state.textureId = node.m_textureId
    /\ nodeSt = "live" =>
          /\ node.m_textureId = mTextureId
          /\ node.surface # 0 => (surf.id = node.surface /\ surf.tex = mTextureId)

\* The item's second node after a pass that published a non-identity
\* transform: its material state carries the second texture name.
C18_Witness ==
    /\ nodeSt = "live"
    /\ rpc = "idle"
    /\ hook = "published"
    /\ created = 2
    /\ mTextureId = 2
    /\ node.state.textureId = 2
    /\ boundTex = 2
    /\ node.state.uSTMatrix # Identity

\* C19 (no callback into a destroyed item), as claimed: frameAvailable is
\* never run with the pointer of an item whose destructor has run.
C19_NoCallbackAfterDestroy == ~danglingUse

====
